---- MODULE Spec2Model ----
(***************************************************************************)
(* Model of the patent pipeline (src/Pipeline.py) and of the search        *)
(* service (src/app.py).                                                   *)
(*                                                                         *)
(* Pipeline.py is a script: every run of it is one operating-system        *)
(* process that loads the JSON file, normalizes the records, rewrites two  *)
(* DuckDB tables and rewrites one ChromaDB collection.  app.py is a        *)
(* second kind of process: at start it gets or creates the collection and  *)
(* then answers POST /search from it.  The shared state is what is on      *)
(* disk: the two tables of patent_data.duckdb and the collection           *)
(* patent_embeddings of ./chroma_store.                                    *)
(*                                                                         *)
(* Text is a sequence of one-character strings, so that str.lower() and    *)
(* str.strip() are computed character by character.  Python's None is the  *)
(* value None below, which is different from every text.                   *)
(***************************************************************************)
EXTENDS Integers, Sequences, FiniteSets, TLC

\* ---------------------------------------------------------------- bounds
\* Number of Pipeline.py processes that may exist at the same time.
NumRuns == 2
\* Longest list data["patentdata"] a run loads.
MaxBatch == 4

\* ------------------------------------------------------ program constants
\* n_results=3 in collection.query (app.py).
N_RESULTS == 3

\* ------------------------------------------------------------------ text
None == <<"~None">>
NoneText == <<"N", "o", "n", "e">>

\* What an f-string prints for a value: str(None) is "None".
Str(v) == IF v = None THEN NoneText ELSE v

\* bool(v) for a value that is None or a text.
Truthy(v) == v # None /\ v # <<>>

LowerChar(c) ==
  CASE c = "A" -> "a"
    [] c = "N" -> "n"
    [] c = "U" -> "u"
    [] OTHER -> c

\* str.lower()
Lower(s) == [i \in 1..Len(s) |-> LowerChar(s[i])]

RECURSIVE LStrip(_)
LStrip(s) == IF s # <<>> /\ Head(s) = " " THEN LStrip(Tail(s)) ELSE s

RECURSIVE RStrip(_)
RStrip(s) ==
  IF s # <<>> /\ s[Len(s)] = " " THEN RStrip(SubSeq(s, 1, Len(s) - 1)) ELSE s

\* str.strip()
Strip(s) == RStrip(LStrip(s))

\* .str.lower().str.strip() of STEP 4
Normalize(s) == Strip(Lower(s))

\* ", ".join(names)
RECURSIVE Join(_)
Join(names) ==
  IF names = <<>> THEN <<>>
  ELSE IF Len(names) = 1 THEN names[1]
  ELSE names[1] \o <<",", " ">> \o Join(Tail(names))

\* ----------------------------------------------------------------- input
\* Raw entries of data["patentdata"].  A key that is absent from the JSON
\* object has the value None here (dict.get returns None for it); an absent
\* inventorBag is the empty list (its default in the code).
EntryA ==
  [applicationNumberText |-> <<"1">>, filingDate |-> <<"7">>,
   businessEntityStatusCategory |-> <<"U">>,
   firstInventorToFileIndicator |-> <<"Y">>,
   inventorBag |-> << <<"A">> >>]

EntryB ==
  [applicationNumberText |-> <<"2">>, filingDate |-> <<"7">>,
   businessEntityStatusCategory |-> <<"U">>,
   firstInventorToFileIndicator |-> <<"Y">>,
   inventorBag |-> << <<"a">> >>]

EntryM ==
  [applicationNumberText |-> None, filingDate |-> None,
   businessEntityStatusCategory |-> None,
   firstInventorToFileIndicator |-> None,
   inventorBag |-> <<>>]

\* The input files considered hold 1..MaxBatch entries: either the same
\* filing n times over, or the three filings in rotation.
Rotation == <<EntryA, EntryM, EntryB>>

Uniform(n) == [i \in 1..n |-> EntryA]

Mixed(n) == [i \in 1..n |-> Rotation[((i - 1) % 3) + 1]]

\* The non-empty lists a run can load.
Batches == {Uniform(n) : n \in 1..MaxBatch} \cup {Mixed(n) : n \in 1..MaxBatch}

\* Query texts a client sends.
Queries == {<<" ", "A", " ">>, <<"a">>}

\* ------------------------------------------------------ STEP 2: normalize
SummaryText(inventors, entity_type, filing_date) ==
  inventors \o <<" ", "|", " ">> \o Str(entity_type)
            \o <<" ", "|", " ">> \o Str(filing_date)

\* Faulty variant: a digest that depends on the process computing it (a
\* per-process salted hash in place of SHA-256).
SaltedFingerprint(p, application_number, summary_text) ==
  [sha256 |-> <<p>> \o Str(application_number) \o <<"-">> \o summary_text]

\* hashlib.sha256(...).hexdigest() of "<application_number>-<summary_text>":
\* a digest is identified with the text it was computed from.  p is the
\* process that computes it; SHA-256 does not depend on it.
Fingerprint(p, application_number, summary_text) ==
  [sha256 |-> Str(application_number) \o <<"-">> \o summary_text]

QualityScore(entry) ==
  Len(entry.inventorBag) + (IF Truthy(entry.filingDate) THEN 1 ELSE 0)

Record(p, entry) ==
  LET inventors == Join(entry.inventorBag)
      summary == SummaryText(inventors, entry.businessEntityStatusCategory,
                             entry.filingDate)
  IN [application_number |-> entry.applicationNumberText,
      filing_date |-> entry.filingDate,
      entity_type |-> entry.businessEntityStatusCategory,
      first_inventor_flag |-> entry.firstInventorToFileIndicator,
      inventors |-> inventors,
      correspondence_text |-> <<"{", "}">>,
      summary_text |-> summary,
      source_fingerprint |->
        Fingerprint(p, entry.applicationNumberText, summary),
      quality_score |-> QualityScore(entry)]

\* Faulty variant: the loop skips an entry that has no application number.
RecordsSkippingMalformed(p, batch) ==
  LET kept == SelectSeq(batch, LAMBDA e : e.applicationNumberText # None)
  IN [i \in 1..Len(kept) |-> Record(p, kept[i])]

\* The list records after the loop of STEP 2: one record per entry, in order.
Records(p, batch) == [i \in 1..Len(batch) |-> Record(p, batch[i])]

\* ---------------------------------------------------------- STEP 4: clean
CleanRow(row) ==
  [row EXCEPT !.summary_text = Normalize(row.summary_text),
              !.inventors = Normalize(row.inventors)]

Clean(df) == [i \in 1..Len(df) |-> CleanRow(df[i])]

\* --------------------------------------------------- STEP 5: vector store
\* model.encode(text): the embedder is a deterministic function of the text
\* it is given; a vector is identified with that text.
Encode(text) == text

\* Distance of two vectors.
Distance(u, v) ==
  LET n == IF Len(u) < Len(v) THEN Len(u) ELSE Len(v)
      m == IF Len(u) < Len(v) THEN Len(v) ELSE Len(u)
  IN Cardinality({i \in 1..n : u[i] # v[i]}) + (m - n)

Metadata(row) ==
  [application_number |-> row.application_number,
   filing_date |-> row.filing_date,
   entity_type |-> row.entity_type,
   source_fingerprint |-> row.source_fingerprint,
   quality_score |-> row.quality_score]

\* The entries handed to collection.add: ids are str(i) for i in
\* range(len(texts)), written as the number i.
NewDocs(df_clean) ==
  [i \in 1..Len(df_clean) |->
     [id |-> i - 1,
      document |-> df_clean[i].summary_text,
      embedding |-> Encode(df_clean[i].summary_text),
      metadata |-> Metadata(df_clean[i])]]

DocIds(docs) == {docs[i].id : i \in 1..Len(docs)}

\* collection.add: an entry whose id the collection already holds is ignored.
Added(docs, new) ==
  docs \o SelectSeq(new, LAMBDA d : d.id \notin DocIds(docs))

\* ---------------------------------------------------------------- stores
AbsentTable == [exists |-> FALSE, rows |-> <<>>]
AbsentCollection == [exists |-> FALSE, docs |-> <<>>]

\* DROP TABLE IF EXISTS
DropTable(t) == AbsentTable

\* CREATE TABLE ... AS SELECT * FROM df
CreateTableAs(df) == [exists |-> TRUE, rows |-> df]

\* create_collection(name)
EmptyCollection == [exists |-> TRUE, docs |-> <<>>]

\* Faulty variant: the service only gets the collection and creates nothing.
GetOnly(c) == c

\* get_or_create_collection(name) of app.py
GetOrCreate(c) == IF c.exists THEN c ELSE EmptyCollection

\* Faulty variant: the connection is opened without taking the file's lock.
ConnectUnlocked(holder) == TRUE

\* duckdb.connect(file) opens the file read-write, which takes the file's
\* lock: it succeeds only when no other process has the file open.
CanConnect(holder) == holder = 0

\* --------------------------------------------------------------- search
\* Faulty variant: the query ignores n_results and returns every entry, nearest
\* first.
QueryAll(docs, v, k) ==
  LET n == Len(docs)
      d(i) == Distance(docs[i].embedding, v)
  IN {s \in [1..n -> 1..n] :
        \A i, j \in 1..n : i < j => (s[i] # s[j] /\ d(s[i]) <= d(s[j]))}

\* collection.query(query_embeddings=[v], n_results=k): the positions of the
\* nearest min(k, count) entries by increasing distance.  The order among
\* entries at equal distance is not specified: every such order is a result.
Query(docs, v, k) ==
  LET n == Len(docs)
      m == IF k < n THEN k ELSE n
      d(i) == Distance(docs[i].embedding, v)
  IN {s \in [1..m -> 1..n] :
        /\ \A i, j \in 1..m : i < j => (s[i] # s[j] /\ d(s[i]) <= d(s[j]))
        /\ \A x \in (1..n) \ {s[i] : i \in 1..m} :
             \A i \in 1..m : d(s[i]) <= d(x)}

ResultOf(doc) ==
  [summary |-> doc.document,
   application_number |-> doc.metadata.application_number,
   filing_date |-> doc.metadata.filing_date,
   entity_type |-> doc.metadata.entity_type,
   quality_score |-> doc.metadata.quality_score,
   source_fingerprint |-> doc.metadata.source_fingerprint]

\* The bodies search_patents can return for text handed to the embedder.
SearchResults(docs, text) ==
  {[i \in 1..Len(s) |-> ResultOf(docs[s[i]])] :
     s \in Query(docs, Encode(text), N_RESULTS)}

\* ----------------------------------------------------------------- state
VARIABLES
  raw,       \* table raw_patents
  cleaned,   \* table cleaned_patents
  coll,      \* collection patent_embeddings
  lock,      \* the run that has patent_data.duckdb open, or 0
  pc,        \* position of each Pipeline.py process
  data,      \* data["patentdata"] of each Pipeline.py process
  app,       \* the service: "down", "fresh" (its handle names the
             \* collection on disk) or "stale" (that collection was deleted)
  resp,      \* the response of the request in flight
  lastDone,  \* history: input and stores of the last run that completed,
             \* kept until a later run fails
  started    \* history: some run has connected

vars ==
  <<raw, cleaned, coll, lock, pc, data, app, resp, lastDone, started>>

Runs == 1..NumRuns

BuildSteps ==
  {"drop_raw", "drop_cleaned", "create_raw", "create_cleaned",
   "delete_collection", "create_collection", "encode", "add"}

NoResp == [status |-> "none", query |-> <<>>, embedded |-> <<>>,
           results |-> <<>>]

NoBuild ==
  [built |-> FALSE, data |-> <<>>,
   stores |-> [raw |-> AbsentTable, cleaned |-> AbsentTable, docs |-> <<>>,
               collection |-> FALSE]]

Stores == [raw |-> raw, cleaned |-> cleaned, docs |-> coll.docs,
           collection |-> coll.exists]

Init ==
  /\ raw = AbsentTable
  /\ cleaned = AbsentTable
  /\ coll = AbsentCollection
  /\ lock = 0
  /\ pc = [r \in Runs |-> "idle"]
  /\ data = [r \in Runs |-> <<>>]
  /\ app = "down"
  /\ resp = NoResp
  /\ lastDone = NoBuild
  /\ started = FALSE

\* ------------------------------------------------------- Pipeline.py run
\* Lines 36-75: load the file, normalize (process-local), then connect.  A
\* run that cannot connect ends with the exception of duckdb.connect.
Start(r) ==
  /\ pc[r] = "idle"
  /\ \E batch \in Batches :
       IF CanConnect(lock)
       THEN /\ pc' = [pc EXCEPT ![r] = "drop_raw"]
            /\ data' = [data EXCEPT ![r] = batch]
            /\ lock' = r
            /\ started' = TRUE
       ELSE /\ pc' = [pc EXCEPT ![r] = "rejected"]
            /\ UNCHANGED <<data, lock, started>>
  /\ UNCHANGED <<raw, cleaned, coll, app, resp, lastDone>>

\* Line 78
DropRaw(r) ==
  /\ pc[r] = "drop_raw"
  /\ raw' = DropTable(raw)
  /\ pc' = [pc EXCEPT ![r] = "drop_cleaned"]
  /\ UNCHANGED <<cleaned, coll, lock, data, app, resp, lastDone, started>>

\* Line 79
DropCleaned(r) ==
  /\ pc[r] = "drop_cleaned"
  /\ cleaned' = DropTable(cleaned)
  /\ pc' = [pc EXCEPT ![r] = "create_raw"]
  /\ UNCHANGED <<raw, coll, lock, data, app, resp, lastDone, started>>

\* Line 82: CREATE TABLE raises when the table exists.
CreateRaw(r) ==
  /\ pc[r] = "create_raw"
  /\ IF raw.exists
     THEN /\ pc' = [pc EXCEPT ![r] = "failed"]
          /\ UNCHANGED raw
     ELSE /\ raw' = CreateTableAs(Records(r, data[r]))
          /\ pc' = [pc EXCEPT ![r] = "create_cleaned"]
  /\ UNCHANGED <<cleaned, coll, lock, data, app, resp, lastDone, started>>

\* Lines 85-91
CreateCleaned(r) ==
  /\ pc[r] = "create_cleaned"
  /\ IF cleaned.exists
     THEN /\ pc' = [pc EXCEPT ![r] = "failed"]
          /\ UNCHANGED cleaned
     ELSE /\ cleaned' = CreateTableAs(Clean(Records(r, data[r])))
          /\ pc' = [pc EXCEPT ![r] = "delete_collection"]
  /\ UNCHANGED <<raw, coll, lock, data, app, resp, lastDone, started>>

\* Lines 95-102: the collection is deleted when it is listed; a service
\* whose handle named it is left with a handle to a deleted collection.
DeleteCollection(r) ==
  /\ pc[r] = "delete_collection"
  /\ coll' = IF coll.exists THEN AbsentCollection ELSE coll
  /\ app' = IF coll.exists /\ app = "fresh" THEN "stale" ELSE app
  /\ pc' = [pc EXCEPT ![r] = "create_collection"]
  /\ UNCHANGED <<raw, cleaned, lock, data, resp, lastDone, started>>

\* Line 105: create_collection raises when the collection exists.
CreateCollection(r) ==
  /\ pc[r] = "create_collection"
  /\ IF coll.exists
     THEN /\ pc' = [pc EXCEPT ![r] = "failed"]
          /\ UNCHANGED coll
     ELSE /\ coll' = EmptyCollection
          /\ pc' = [pc EXCEPT ![r] = "encode"]
  /\ UNCHANGED <<raw, cleaned, lock, data, app, resp, lastDone, started>>

\* Lines 108-112: texts, metadatas and embeddings are process-local.
EncodeTexts(r) ==
  /\ pc[r] = "encode"
  /\ pc' = [pc EXCEPT ![r] = "add"]
  /\ UNCHANGED <<raw, cleaned, coll, lock, data, app, resp, lastDone, started>>

\* Lines 115-124: collection.add, then the final print.
Add(r) ==
  /\ pc[r] = "add"
  /\ IF coll.exists
     THEN /\ coll' = [coll EXCEPT
                        !.docs = Added(coll.docs,
                                       NewDocs(Clean(Records(r, data[r]))))]
          /\ pc' = [pc EXCEPT ![r] = "done"]
     ELSE /\ pc' = [pc EXCEPT ![r] = "failed"]
          /\ UNCHANGED coll
  /\ UNCHANGED <<raw, cleaned, lock, data, app, resp, lastDone, started>>

\* Any call of lines 78-120 can raise (the store or the embedder fails); the
\* script catches nothing, so the process ends there.
Fail(r) ==
  /\ pc[r] \in BuildSteps
  /\ pc' = [pc EXCEPT ![r] = "failed"]
  /\ UNCHANGED <<raw, cleaned, coll, lock, data, app, resp, lastDone, started>>

\* The process ends; its connection, never closed by the script, closes.
Exit(r) ==
  /\ pc[r] \in {"done", "failed", "rejected"}
  /\ lastDone' = CASE pc[r] = "done" ->
                        [built |-> TRUE, data |-> data[r], stores |-> Stores]
                   [] pc[r] = "failed" -> NoBuild
                   [] OTHER -> lastDone
  /\ lock' = IF lock = r THEN 0 ELSE lock
  /\ pc' = [pc EXCEPT ![r] = "idle"]
  /\ data' = [data EXCEPT ![r] = <<>>]
  /\ UNCHANGED <<raw, cleaned, coll, app, resp, started>>

\* ----------------------------------------------------------------- app.py
\* Lines 14-23: module start.
AppStart ==
  /\ app = "down"
  /\ coll' = GetOrCreate(coll)
  /\ app' = "fresh"
  /\ UNCHANGED <<raw, cleaned, lock, pc, data, resp, lastDone, started>>

AppStop ==
  /\ app # "down"
  /\ app' = "down"
  /\ resp' = NoResp
  /\ UNCHANGED <<raw, cleaned, coll, lock, pc, data, lastDone, started>>

\* Lines 30-48: search_patents.  The query text goes to model.encode as it
\* was received.  A query through a handle to a deleted collection raises.
Search(q) ==
  /\ app # "down"
  /\ resp = NoResp
  /\ IF app = "fresh" /\ coll.exists
     THEN \E body \in SearchResults(coll.docs, q) :
            resp' = [status |-> "ok", query |-> q, embedded |-> q,
                     results |-> body]
     ELSE resp' = [status |-> "error", query |-> q, embedded |-> q,
                   results |-> <<>>]
  /\ UNCHANGED <<raw, cleaned, coll, lock, pc, data, app, lastDone, started>>

\* The response leaves the service.
Respond ==
  /\ resp # NoResp
  /\ resp' = NoResp
  /\ UNCHANGED <<raw, cleaned, coll, lock, pc, data, app, lastDone, started>>

\* No request is in flight.
Quiet == resp = NoResp

\* A response in flight is returned before any process takes its next step:
\* no other process reads or writes it.
Next ==
  \/ \E r \in Runs : Quiet /\ Start(r)
  \/ \E r \in Runs : Quiet /\ DropRaw(r)
  \/ \E r \in Runs : Quiet /\ DropCleaned(r)
  \/ \E r \in Runs : Quiet /\ CreateRaw(r)
  \/ \E r \in Runs : Quiet /\ CreateCleaned(r)
  \/ \E r \in Runs : Quiet /\ DeleteCollection(r)
  \/ \E r \in Runs : Quiet /\ CreateCollection(r)
  \/ \E r \in Runs : Quiet /\ EncodeTexts(r)
  \/ \E r \in Runs : Quiet /\ Add(r)
  \/ \E r \in Runs : Quiet /\ Fail(r)
  \/ \E r \in Runs : Quiet /\ Exit(r)
  \/ Quiet /\ AppStart
  \/ Quiet /\ AppStop
  \/ \E q \in Queries : Search(q)
  \/ Respond

Spec == Init /\ [][Next]_vars

TypeOK ==
  /\ lock \in 0..NumRuns
  /\ app \in {"down", "fresh", "stale"}
  /\ \A r \in Runs : pc[r] \in BuildSteps \cup {"idle", "done", "failed", "rejected"}

\* ------------------------------------------------------------ properties
\* What a run that completes writes for the list it loaded.
Output(p, batch) ==
  [raw |-> CreateTableAs(Records(p, batch)),
   cleaned |-> CreateTableAs(Clean(Records(p, batch))),
   docs |-> NewDocs(Clean(Records(p, batch))),
   collection |-> TRUE]

\* The tables have no id column: a row's id is its position in the
\* DataFrame, the number STEP 5 gives its vector.
TableIds(t) == {i - 1 : i \in 1..Len(t.rows)}

Fingerprints(docs) ==
  {docs[i].metadata.source_fingerprint : i \in 1..Len(docs)}

\* While no run is connected and the last run to end completed, the stores
\* are the ones that run left.
SnapshotIntact ==
  (lock = 0 /\ lastDone.built) => Stores = lastDone.stores

\* C1: a run that fails in a build step leaves the snapshot that was active
\* before it (tables and collection) in place, unchanged.
C1_FailedBuildKeepsSnapshot ==
  \A r \in Runs :
    (pc[r] = "failed" /\ lastDone.built) => Stores = lastDone.stores

\* C2: a search that runs while a build is in progress, in a service whose
\* handle names the collection on disk, succeeds and returns what a search
\* of the complete previous snapshot or of the complete new snapshot
\* returns.
C2_ReaderSeesWholeSnapshot ==
  [][(/\ Quiet
      /\ resp' # NoResp
      /\ app = "fresh"
      /\ lock # 0
      /\ pc[lock] \in BuildSteps
      /\ lastDone.built)
     => /\ resp'.status = "ok"
        /\ resp'.results \in
             SearchResults(lastDone.stores.docs, resp'.query)
             \cup SearchResults(Output(lock, data[lock]).docs, resp'.query)]_vars

\* C3: whenever the service is up and no build is running, each table and
\* the collection hold the same set of ids.
C3_SameIdsInBothStores ==
  (lock = 0 /\ app # "down")
    => /\ TableIds(raw) = DocIds(coll.docs)
       /\ TableIds(cleaned) = DocIds(coll.docs)

\* C4: in the snapshot of a run that completed, no two documents (and no two
\* rows) have the same fingerprint.
C4_NoDuplicateFingerprints ==
  \A r \in Runs :
    pc[r] = "done"
      => /\ \A i, j \in 1..Len(coll.docs) :
              i # j => coll.docs[i].metadata.source_fingerprint
                         # coll.docs[j].metadata.source_fingerprint
         /\ \A i, j \in 1..Len(cleaned.rows) :
              i # j => cleaned.rows[i].source_fingerprint
                         # cleaned.rows[j].source_fingerprint

\* C5: the text a search hands to the embedder is the query text case-folded
\* and trimmed, as the summary text is at ingestion.
C5_QueryNormalized ==
  resp # NoResp => resp.embedded = Normalize(resp.query)

\* C6: a search that succeeds returns at most 3 results, fewer than 3 only
\* when the collection holds fewer than 3 unique documents, and exactly 1
\* when the collection holds exactly 1 document.
C6_BoundedResults ==
  [][(Quiet /\ resp' # NoResp /\ resp'.status = "ok")
     => LET n == Len(resp'.results)
        IN /\ n <= 3
           /\ n < 3 => Cardinality(Fingerprints(coll.docs)) < 3
           /\ Len(coll.docs) = 1 => n = 1]_vars

\* C6 witness: the collection holds more than 3 documents and the search
\* returned 3.
C6_CapApplied ==
  /\ resp.status = "ok"
  /\ Len(resp.results) = 3
  /\ Len(coll.docs) > 3

\* C7: a run that completes on the input of the previous completed run
\* leaves both tables and the collection equal to what that run left: the
\* same ids, fingerprints and count, nothing carried over.
C7_IdempotentRebuild ==
  \A r \in Runs :
    (pc[r] = "done" /\ lastDone.built /\ lastDone.data = data[r])
      => Stores = lastDone.stores

\* C7 witness: a run has completed on the input of the previous run.
C7_RebuiltSameInput ==
  \E r \in Runs :
    pc[r] = "done" /\ lastDone.built /\ lastDone.data = data[r]

C10_SingleWriter ==
  /\ Cardinality({r \in Runs : pc[r] \in BuildSteps \cup {"done", "failed"}}) <= 1
  /\ \A r \in Runs : pc[r] = "done" => Stores = Output(r, data[r])

\* C10 witness: a second run was started while a run was building, and was
\* rejected; the first run then completed.
C10_ConcurrentRunRejected ==
  \E r1, r2 \in Runs : pc[r1] = "done" /\ pc[r2] = "rejected"
====
